---------------------------- MODULE Spec2Model ----------------------------
(***************************************************************************)
(* A model of tridactyl-native: the native-messaging bridge of             *)
(* src/src/main.rs (framing and dispatch) and src/src/commands.rs (the     *)
(* operation handlers).                                                    *)
(*                                                                         *)
(* Text (Rust String / &str) is a sequence of UTF-8 bytes, 0..255.  A      *)
(* filesystem path handed to the OS is such a text; the filesystem itself  *)
(* is keyed by canonical paths, sequences of component names.              *)
(***************************************************************************)
EXTENDS Integers, Sequences, FiniteSets, TLC

(***************************************************************************)
(* Text: byte literals carry the text they spell as a comment.             *)
(***************************************************************************)

Empty == << >>

\* s[from..to] (1-based, inclusive); empty when from > to.
Slice(s, from, to) == [i \in 1..(to - from + 1) |-> s[from + i - 1]]

\* str::starts_with
StartsWith(s, p) == Len(s) >= Len(p) /\ Slice(s, 1, Len(p)) = p

\* The least index >= from at which byte b occurs in s, or 0.
IndexFrom(s, b, from) ==
   LET hits == {i \in from..Len(s) : s[i] = b}
   IN  IF hits = {} THEN 0 ELSE CHOOSE i \in hits : \A j \in hits : i <= j

\* str::contains(char)
Contains(s, b) == IndexFrom(s, b, 1) # 0

\* The least index >= from at which the text p occurs in s, or 0.
FindFrom(s, p, from) ==
   LET hits == {i \in from..(Len(s) - Len(p) + 1) : Slice(s, i, i + Len(p) - 1) = p}
   IN  IF hits = {} THEN 0 ELSE CHOOSE i \in hits : \A j \in hits : i <= j

\* str::replace(from, to): every non-overlapping occurrence, left to right,
\* in one pass (the replacement text is not scanned again).
RECURSIVE ReplaceFrom(_, _, _, _)
ReplaceFrom(s, from, to, start) ==
   LET i == FindFrom(s, from, start)
   IN  IF i = 0 THEN Slice(s, start, Len(s))
       ELSE Slice(s, start, i - 1) \o to \o ReplaceFrom(s, from, to, i + Len(from))

Replace(s, from, to) == ReplaceFrom(s, from, to, 1)

(***************************************************************************)
(* base64 (BASE64_STANDARD.decode) and String::from_utf8                   *)
(***************************************************************************)

\* The 6-bit value of a symbol of the standard alphabet, or -1.
B64Value(b) ==
   IF b >= 65 /\ b <= 90 THEN b - 65   \* 'A', 'Z'
   ELSE IF b >= 97 /\ b <= 122 THEN b - 97 + 26   \* 'a', 'z'
   ELSE IF b >= 48 /\ b <= 57 THEN b - 48 + 52   \* '0', '9'
   ELSE IF b = 43 THEN 62   \* '+'
   ELSE IF b = 47 THEN 63   \* '/'
   ELSE -1

\* One group of four symbols: [ok, bytes].  Padding ("=") is legal only at
\* the end of the last group, and the bits a padded group leaves over must
\* be zero (the standard engine refuses trailing bits).
B64Quad(q, last) ==
   LET pad  == 61   \* '='
       none == [ok |-> FALSE, bytes |-> Empty]
       Bytes(v1, v2, v3, v4) ==
          IF v1 < 0 \/ v2 < 0 THEN none
          ELSE IF q[3] = pad /\ q[4] = pad THEN
             IF last /\ v2 % 16 = 0
             THEN [ok |-> TRUE, bytes |-> << v1 * 4 + v2 \div 16 >>]
             ELSE none
          ELSE IF v3 < 0 THEN none
          ELSE IF q[4] = pad THEN
             IF last /\ v3 % 4 = 0
             THEN [ok |-> TRUE,
                   bytes |-> << v1 * 4 + v2 \div 16, (v2 % 16) * 16 + v3 \div 4 >>]
             ELSE none
          ELSE IF v4 < 0 THEN none
          ELSE [ok |-> TRUE,
                bytes |-> << v1 * 4 + v2 \div 16, (v2 % 16) * 16 + v3 \div 4,
                             (v3 % 4) * 64 + v4 >>]
   IN  Bytes(B64Value(q[1]), B64Value(q[2]), B64Value(q[3]), B64Value(q[4]))

\* BASE64_STANDARD.decode: [ok, bytes]; padding is required, so the length
\* is a multiple of four.
RECURSIVE B64DecodeFrom(_, _)
B64DecodeFrom(s, i) ==
   LET Both(q, rest) ==
          IF q.ok /\ rest.ok
          THEN [ok |-> TRUE, bytes |-> q.bytes \o rest.bytes]
          ELSE [ok |-> FALSE, bytes |-> Empty]
   IN  IF i > Len(s) THEN [ok |-> TRUE, bytes |-> Empty]
       ELSE Both(B64Quad(Slice(s, i, i + 3), i + 3 = Len(s)), B64DecodeFrom(s, i + 4))

B64Decode(s) ==
   IF Len(s) % 4 # 0 THEN [ok |-> FALSE, bytes |-> Empty] ELSE B64DecodeFrom(s, 1)

\* String::from_utf8's test: the bytes from i on are well-formed UTF-8.
RECURSIVE Utf8From(_, _)
Utf8From(s, i) ==
   LET cont(k) == k <= Len(s) /\ s[k] >= 128 /\ s[k] <= 191
   IN  IF i > Len(s) THEN TRUE
       ELSE IF s[i] < 128 THEN Utf8From(s, i + 1)
       ELSE IF s[i] >= 194 /\ s[i] <= 223 THEN cont(i + 1) /\ Utf8From(s, i + 2)
       ELSE IF s[i] >= 224 /\ s[i] <= 239 THEN
          /\ cont(i + 1) /\ cont(i + 2)
          /\ (s[i] = 224 => s[i + 1] >= 160)
          /\ (s[i] = 237 => s[i + 1] <= 159)
          /\ Utf8From(s, i + 3)
       ELSE IF s[i] >= 240 /\ s[i] <= 244 THEN
          /\ cont(i + 1) /\ cont(i + 2) /\ cont(i + 3)
          /\ (s[i] = 240 => s[i + 1] >= 144)
          /\ (s[i] = 244 => s[i + 1] <= 143)
          /\ Utf8From(s, i + 4)
       ELSE FALSE

IsUtf8(s) == Utf8From(s, 1)

(***************************************************************************)
(* The data-URL pattern of write                                           *)
(***************************************************************************)

\* Regex ^data:((.*?)(;charset=.*?)?)(;base64)?,  : the end of its match in
\* c, or 0 when c does not match.  Every repetition is lazy and everything
\* before the final comma is optional, so a match ends at the first comma
\* after "data:"; "." matches any character but a line feed.
DataUrlMatchEnd(c) ==
   LET head == <<100, 97, 116, 97, 58>>   \* "data:"
       End(comma) ==
          IF StartsWith(c, head) /\ comma # 0
             /\ \A i \in (Len(head) + 1)..(comma - 1) : c[i] # 10
          THEN comma ELSE 0
   IN  End(IndexFrom(c, 44, Len(head) + 1))   \* ','

(***************************************************************************)
(* File names and path expansion                                           *)
(***************************************************************************)

IsUpper(b) == b >= 65 /\ b <= 90   \* 'A', 'Z'
IsLower(b) == b >= 97 /\ b <= 122   \* 'a', 'z'
IsDigit(b) == b >= 48 /\ b <= 57   \* '0', '9'

\* char::is_alphanumeric and the \w of the regex crate, on ASCII (the texts
\* of this model are ASCII).
IsAlphanumeric(b) == IsUpper(b) \/ IsLower(b) \/ IsDigit(b)
IsWord(b) == IsAlphanumeric(b) \/ b = 95   \* '_'

\* str::to_lowercase, on ASCII.
ToLower(s) == [i \in 1..Len(s) |-> IF IsUpper(s[i]) THEN s[i] + 32 ELSE s[i]]

\* The loop of sanitize_file_name: the characters kept.
RECURSIVE KeepFileNameChars(_)
KeepFileNameChars(s) ==
   IF s = Empty THEN Empty
   ELSE (IF IsAlphanumeric(Head(s)) \/ Head(s) = 46 THEN <<Head(s)>> ELSE Empty)   \* '.'
        \o KeepFileNameChars(Tail(s))

sanitize_file_name(file_name) ==
   Replace(KeepFileNameChars(ToLower(file_name)), <<46, 46>>, <<46>>)   \* "..", "."

(***************************************************************************)
(* The process environment and std::path                                   *)
(***************************************************************************)

Slash == 47   \* '/'

HomeVar == <<72, 79, 77, 69>>   \* "HOME"
HomeDir == <<47, 104>>   \* "/h"
WorkDir == <<47, 119>>   \* "/w"
TempDir == <<47, 116, 109, 112>>   \* "/tmp"

\* The variables the bridge was started with; it never changes them.
\* V names a file of the working directory.
Environ == (HomeVar :> HomeDir) @@ (<<86>> :> <<98>>)   \* "V", "b"

\* std::env::var: [ok, value].
EnvVar(name) ==
   IF name \in DOMAIN Environ THEN [ok |-> TRUE, value |-> Environ[name]]
   ELSE [ok |-> FALSE, value |-> Empty]

\* dirs::home_dir()
home_dir == EnvVar(HomeVar).value

\* std::env::temp_dir(): TMPDIR is not set.
temp_dir == TempDir

\* Path::is_absolute
IsAbsolute(p) == Len(p) > 0 /\ p[1] = Slash

\* PathBuf::join: an absolute argument replaces the base; otherwise it is
\* appended, after a separator unless the base is empty or ends with one.
Join(base, p) ==
   IF IsAbsolute(p) THEN p
   ELSE IF base # Empty /\ base[Len(base)] # Slash THEN base \o <<Slash>> \o p
   ELSE base \o p

\* The pieces of p between separators, empty pieces included.
RECURSIVE SplitSlash(_)
SplitSlash(p) ==
   LET At(i) == IF i = 0 THEN <<p>>
                ELSE <<Slice(p, 1, i - 1)>> \o SplitSlash(Slice(p, i + 1, Len(p)))
   IN  At(IndexFrom(p, Slash, 1))

Dot    == <<46>>   \* "."
DotDot == <<46, 46>>   \* ".."

\* Path::components without the root: empty pieces and "." are dropped,
\* except a "." that leads a relative path.
PathComponents(p) ==
   LET Kept(segs) ==
          SelectSeq([i \in 1..Len(segs) |->
                       IF segs[i] = Empty \/ (segs[i] = Dot /\ (i > 1 \/ IsAbsolute(p)))
                       THEN Empty ELSE segs[i]],
                    LAMBDA c : c # Empty)
   IN  Kept(SplitSlash(p))

\* Path::file_name: [some, name]; none when the path is empty or the root,
\* or ends in "..", or is ".".
file_name(p) ==
   LET Last(cs) ==
          IF cs = <<>> \/ cs[Len(cs)] = DotDot \/ cs[Len(cs)] = Dot
          THEN [some |-> FALSE, name |-> Empty]
          ELSE [some |-> TRUE, name |-> cs[Len(cs)]]
   IN  Last(PathComponents(p))

\* expand_tilde
expand_tilde(path) ==
   IF StartsWith(path, <<126>>) THEN Join(home_dir, Slice(path, 2, Len(path)))   \* "~"
   ELSE path

\* Regex \$(\w+|\{[^}]*\}) tried at the "$" of index j: the end of the match,
\* or 0.  \w+ is greedy; the braced form ends at the first "}".
VarMatchEnd(path, j) ==
   LET n == Len(path)
   IN  IF j < n /\ IsWord(path[j + 1]) THEN
          CHOOSE e \in (j + 1)..n :
             /\ \A k \in (j + 1)..e : IsWord(path[k])
             /\ (e = n \/ ~IsWord(path[e + 1]))
       ELSE IF j < n /\ path[j + 1] = 123 THEN IndexFrom(path, 125, j + 2)   \* '{', '}'
       ELSE 0

\* The captures_iter loop of expand_vars from index i on: each match is
\* replaced by its variable's value, or kept when the variable is not set.
RECURSIVE ExpandVarsFrom(_, _)
ExpandVarsFrom(path, i) ==
   LET clean_name(var_name) ==
          IF StartsWith(var_name, <<123>>) /\ var_name[Len(var_name)] = 125   \* "{", '}'
          THEN Slice(var_name, 2, Len(var_name) - 1)
          ELSE var_name
       Push(j, e, value) == IF value.ok THEN value.value ELSE Slice(path, j, e)
       Match(j, e) ==
          IF j = 0 THEN Slice(path, i, Len(path))
          ELSE IF e = 0 THEN Slice(path, i, j) \o ExpandVarsFrom(path, j + 1)
          ELSE Slice(path, i, j - 1)
               \o Push(j, e, EnvVar(clean_name(Slice(path, j + 1, e))))
               \o ExpandVarsFrom(path, e + 1)
       At(j) == Match(j, VarMatchEnd(path, j))
   IN  At(IndexFrom(path, 36, i))   \* '$'

\* expand_vars, built for unix (cfg!(unix)).
expand_vars(path) ==
   IF ~Contains(path, 36) THEN path ELSE ExpandVarsFrom(path, 1)   \* '$'

\* Path::parent: [some, path]; none for the empty path and the root.
ParentPath(p) ==
   LET root == IF IsAbsolute(p) THEN <<Slash>> ELSE Empty
       Up(cs) ==
          LET RECURSIVE Glue(_)
              Glue(k) == IF k = 0 THEN root
                         ELSE IF k = 1 THEN root \o cs[1]
                         ELSE Glue(k - 1) \o <<Slash>> \o cs[k]
          IN  IF cs = <<>> THEN [some |-> FALSE, path |-> Empty]
              ELSE [some |-> TRUE, path |-> Glue(Len(cs) - 1)]
   IN  Up(PathComponents(p))

(***************************************************************************)
(* The filesystem, as the OS presents it to std::fs                        *)
(*                                                                         *)
(* A filesystem is a function from the canonical paths that exist (each a  *)
(* sequence of component names under the root) to nodes.  The root, <<>>,  *)
(* always exists and is a directory.                                       *)
(***************************************************************************)

FileNode(data) == [kind |-> "file", data |-> data]
DirNode        == [kind |-> "dir", data |-> Empty]

ExistsAt(f, cp) == cp = <<>> \/ cp \in DOMAIN f
IsDirAt(f, cp)  == cp = <<>> \/ (cp \in DOMAIN f /\ f[cp].kind = "dir")
IsFileAt(f, cp) == cp \in DOMAIN f /\ f[cp].kind = "file"

Front(cp) == IF cp = <<>> THEN <<>> ELSE SubSeq(cp, 1, Len(cp) - 1)

\* cp lies strictly below the directory dp.
Below(dp, cp) == Len(cp) > Len(dp) /\ SubSeq(cp, 1, Len(dp)) = dp

\* Path resolution from the directory `at` over the pieces segs[i..]: every
\* piece is looked up in a directory that must exist.
\* [err, path]: err is "" or the ErrorKind; the last component of path need
\* not exist.
RECURSIVE Walk(_, _, _, _)
Walk(f, segs, i, at) ==
   IF i > Len(segs) THEN [err |-> "", path |-> at]
   ELSE IF ~ExistsAt(f, at) THEN [err |-> "NotFound", path |-> at]
   ELSE IF ~IsDirAt(f, at) THEN [err |-> "NotADirectory", path |-> at]
   ELSE IF segs[i] = Empty \/ segs[i] = Dot THEN Walk(f, segs, i + 1, at)
   ELSE IF segs[i] = DotDot THEN Walk(f, segs, i + 1, Front(at))
   ELSE Walk(f, segs, i + 1, Append(at, segs[i]))

\* The canonical path a path text names; the empty path names nothing.
Resolve(f, p) ==
   IF p = Empty THEN [err |-> "NotFound", path |-> <<>>]
   ELSE Walk(f, SplitSlash(p), 1, IF IsAbsolute(p) THEN <<>> ELSE PathComponents(WorkDir))

\* The path text ends in a plain name (not in a separator, "." or "..").
EndsInName(p) ==
   LET Named(segs) == p # Empty /\ segs[Len(segs)] \notin {Empty, Dot, DotDot}
   IN  Named(SplitSlash(p))

\* std::fs::exists(..).unwrap_or(false), Path::exists
Exists(f, p) ==
   LET At(r) == r.err = "" /\ ExistsAt(f, r.path) IN At(Resolve(f, p))

\* Path::is_dir
IsDir(f, p) ==
   LET At(r) == r.err = "" /\ IsDirAt(f, r.path) IN At(Resolve(f, p))

\* std::fs::read_to_string: [ok, value]; fails on a missing file, a
\* directory, and on content that is not UTF-8.
read_to_string(f, p) ==
   LET At(r) ==
          IF r.err = "" /\ IsFileAt(f, r.path) /\ IsUtf8(f[r.path].data)
          THEN [ok |-> TRUE, value |-> f[r.path].data]
          ELSE [ok |-> FALSE, value |-> Empty]
   IN  At(Resolve(f, p))

\* f with the nodes at and below cp removed.
Without(f, cp) == [q \in {q \in DOMAIN f : q # cp /\ ~Below(cp, q)} |-> f[q]]

\* File::create (open with O_CREAT | O_TRUNC): [ok, fs, at].
FileCreate(f, p) ==
   LET At(r) ==
          IF r.err = "" /\ EndsInName(p) /\ ~IsDirAt(f, r.path)
          THEN [ok |-> TRUE, fs |-> (r.path :> FileNode(Empty)) @@ f, at |-> r.path]
          ELSE [ok |-> FALSE, fs |-> f, at |-> <<>>]
   IN  At(Resolve(f, p))

\* Write::write_all on a file just created at cp: [ok, fs].  Nothing is
\* written for an empty buffer; otherwise the device decides (wok), and a
\* failed write leaves the truncated file.
WriteAll(f, cp, data, wok) ==
   IF data = Empty \/ wok
   THEN [ok |-> TRUE, fs |-> (cp :> FileNode(data)) @@ f]
   ELSE [ok |-> FALSE, fs |-> f]

\* mkdir(2): [err, fs].
Mkdir(f, p) ==
   LET At(r) ==
          IF r.err # "" THEN [err |-> r.err, fs |-> f]
          ELSE IF ExistsAt(f, r.path) THEN [err |-> "AlreadyExists", fs |-> f]
          ELSE [err |-> "", fs |-> (r.path :> DirNode) @@ f]
   IN  At(Resolve(f, p))

\* A create_dir_all that does not forgive a failed mkdir: a directory that
\* is already there is an error.
RECURSIVE create_dir_all_strict(_, _)
create_dir_all_strict(f, p) ==
   LET Settle(g, m) == [ok |-> m.err = "", fs |-> IF m.err = "" THEN m.fs ELSE g]
       Above(up) == IF ~up.ok THEN [ok |-> FALSE, fs |-> up.fs]
                    ELSE Settle(up.fs, Mkdir(up.fs, p))
       Climb(parent) == IF ~parent.some THEN [ok |-> FALSE, fs |-> f]
                        ELSE Above(create_dir_all_strict(f, parent.path))
       First(m) == IF m.err = "NotFound" THEN Climb(ParentPath(p)) ELSE Settle(f, m)
   IN  IF p = Empty THEN [ok |-> TRUE, fs |-> f] ELSE First(Mkdir(f, p))

\* std::fs::create_dir_all: [ok, fs].  The empty path is created by
\* definition; a missing parent is created first; any other failure is
\* forgiven when the path is a directory after all.
RECURSIVE create_dir_all(_, _)
create_dir_all(f, p) ==
   LET Settle(g, m) == IF m.err = "" THEN [ok |-> TRUE, fs |-> m.fs]
                       ELSE [ok |-> IsDir(g, p), fs |-> g]
       Above(up) == IF ~up.ok THEN [ok |-> FALSE, fs |-> up.fs]
                    ELSE Settle(up.fs, Mkdir(up.fs, p))
       Climb(parent) == IF ~parent.some THEN [ok |-> FALSE, fs |-> f]
                        ELSE Above(create_dir_all(f, parent.path))
       First(m) == IF m.err = "NotFound" THEN Climb(ParentPath(p)) ELSE Settle(f, m)
   IN  IF p = Empty THEN [ok |-> TRUE, fs |-> f] ELSE First(Mkdir(f, p))

\* std::fs::rename (rename(2)): [ok, fs].  A file replaces a file, never
\* a directory; a directory replaces only an empty directory and cannot
\* move below itself; renaming a path onto itself changes nothing.
Rename(f, from, to) ==
   LET fail == [ok |-> FALSE, fs |-> f]
       Moved(sp, tp) ==
          [q \in {q \in DOMAIN f : q # sp /\ ~Below(sp, q) /\ q # tp /\ ~Below(tp, q)}
                 \cup {tp \o SubSeq(q, Len(sp) + 1, Len(q)) :
                         q \in {q \in DOMAIN f : q = sp \/ Below(sp, q)}}
           |-> IF q = tp \/ Below(tp, q)
               THEN f[sp \o SubSeq(q, Len(tp) + 1, Len(q))]
               ELSE f[q]]
       Onto(sp, tp, named) ==
          IF tp = sp THEN [ok |-> TRUE, fs |-> f]
          ELSE IF f[sp].kind = "file" THEN
             IF IsDirAt(f, tp) \/ ~named THEN fail
             ELSE [ok |-> TRUE, fs |-> Moved(sp, tp)]
          ELSE IF IsFileAt(f, tp) \/ Below(sp, tp)
                  \/ (\E q \in DOMAIN f : Below(tp, q)) THEN fail
          ELSE [ok |-> TRUE, fs |-> Moved(sp, tp)]
       Between(rf, rt) ==
          IF rf.err # "" \/ rf.path = <<>> \/ rf.path \notin DOMAIN f
             \/ (~EndsInName(from) /\ f[rf.path].kind = "file") THEN fail
          ELSE IF rt.err # "" \/ rt.path = <<>> THEN fail
          ELSE Onto(rf.path, rt.path, EndsInName(to))
   IN  Between(Resolve(f, from), Resolve(f, to))

\* std::fs::remove_file (unlink(2)): [ok, fs].
remove_file(f, p) ==
   LET At(r) ==
          IF r.err = "" /\ IsFileAt(f, r.path) /\ EndsInName(p)
          THEN [ok |-> TRUE, fs |-> Without(f, r.path)]
          ELSE [ok |-> FALSE, fs |-> f]
   IN  At(Resolve(f, p))

\* Path::canonicalize: [ok, path], the absolute text of an existing path.
Canonicalize(f, p) ==
   LET At(r) ==
          LET RECURSIVE Text(_)
              Text(k) == IF k = 0 THEN Empty ELSE Text(k - 1) \o <<Slash>> \o r.path[k]
          IN  IF r.err = "" /\ ExistsAt(f, r.path)
              THEN [ok |-> TRUE,
                    path |-> IF r.path = <<>> THEN <<Slash>> ELSE Text(Len(r.path))]
              ELSE [ok |-> FALSE, path |-> Empty]
   IN  At(Resolve(f, p))

\* Path::read_dir: [ok, names], the names of the entries of a directory.
ReadDir(f, p) ==
   LET At(r) ==
          IF r.err = "" /\ IsDirAt(f, r.path)
          THEN [ok |-> TRUE,
                names |-> {q[Len(q)] : q \in {q \in DOMAIN f : Front(q) = r.path /\ q # <<>>}}]
          ELSE [ok |-> FALSE, names |-> {}]
   IN  At(Resolve(f, p))

(***************************************************************************)
(* JSON values (serde_json::Value), as far as dispatch looks into them     *)
(***************************************************************************)

JStr(s)  == [t |-> "str",  s |-> s,     b |-> FALSE, m |-> <<>>]
JBool(b) == [t |-> "bool", s |-> Empty, b |-> b,     m |-> <<>>]
JNum     == [t |-> "num",  s |-> Empty, b |-> FALSE, m |-> <<>>]
JNull    == [t |-> "null", s |-> Empty, b |-> FALSE, m |-> <<>>]
\* An object: m maps its keys to values.
JObj(m)  == [t |-> "obj",  s |-> Empty, b |-> FALSE, m |-> m]

\* map.get(key).and_then(|v| v.as_str()).unwrap_or_default()
ParamStr(map, key) ==
   IF key \in DOMAIN map /\ map[key].t = "str" THEN map[key].s ELSE Empty

\* A flag read by truthiness: any value that is present counts as true.
ParamBoolTruthy(map, key) ==
   IF key \in DOMAIN map THEN (map[key].t = "bool" => map[key].b) ELSE FALSE

\* map.get(key).and_then(|v| v.as_bool()).unwrap_or(false)
ParamBool(map, key) ==
   IF key \in DOMAIN map /\ map[key].t = "bool" THEN map[key].b ELSE FALSE

(***************************************************************************)
(* Responses and handler outcomes                                          *)
(***************************************************************************)

\* A response object: `has` names the fields it carries besides cmd; text
\* is its one text field (content, result, version, error or sep).
Response(cmd, has, code, text) ==
   [cmd |-> cmd, has |-> has, code |-> code, text |-> text,
    files |-> {}, isDir |-> FALSE, num |-> 0]

NoResp == Response("", {}, 0, Empty)

\* The `error` value of handle_command.
ErrorResponse ==
   LET message ==   \* "Unhandled message"
          <<85, 110, 104, 97, 110, 100, 108, 101, 100, 32,
            109, 101, 115, 115, 97, 103, 101>>
   IN  Response("error", {"code", "error"}, 1, message)

\* No child process.  Of a child: what it writes to its standard output, its
\* exit status, whether it runs for ever; how its standard streams are wired
\* (stdio), the bytes the bridge wrote into its standard input, and whether
\* the bridge then closed that stream (eof).
NoChild == [kind |-> "none", state |-> "none", out |-> Empty,
            status |-> [some |-> FALSE, code |-> 0], hangs |-> FALSE,
            stdio |-> "none", input |-> Empty, eof |-> FALSE]

\* The handler that ran and the arguments it was given ("none": no handler).
Call(fn, p1, p2, text, f1, f2) ==
   [fn |-> fn, p1 |-> p1, p2 |-> p2, text |-> text, f1 |-> f1, f2 |-> f2]

NoCall == Call("none", Empty, Empty, Empty, FALSE, FALSE)

\* What a handler did: its response, the filesystem it leaves, whether it
\* panicked (then there is no response), the child it spawned.
Returned(resp, f) == [resp |-> resp, fs |-> f, panic |-> FALSE, spawn |-> NoChild]
Panicked(f)       == [resp |-> NoResp, fs |-> f, panic |-> TRUE, spawn |-> NoChild]

(***************************************************************************)
(* The operation handlers of commands.rs                                   *)
(***************************************************************************)

SUCCESS_CODE == 0

VERSION == <<48, 46, 53, 46, 48>>   \* "0.5.0"
NAME    == <<116, 114, 105, 100, 97, 99, 116, 121, 108>>   \* "tridactyl"
CONFIG  == <<116, 114, 105, 100, 97, 99, 116, 121, 108, 114, 99>>   \* "tridactylrc"

\* dirs::config_dir(): XDG_CONFIG_HOME is not set.
config_dir == Join(home_dir, <<46, 99, 111, 110, 102, 105, 103>>)   \* ".config"

\* get_config_file: [some, path], the first candidate that exists.
get_config_file(f) ==
   LET Pick(candidates, found) ==
          IF found = {} THEN [some |-> FALSE, path |-> Empty]
          ELSE [some |-> TRUE,
                path |-> candidates[CHOOSE i \in found : \A j \in found : i <= j]]
       Among(candidates) ==
          Pick(candidates, {i \in 1..Len(candidates) : Exists(f, candidates[i])})
   IN  Among(<< Join(Join(config_dir, NAME), CONFIG),
                Join(home_dir, <<46>> \o CONFIG) >>)   \* "."

version == Response("version", {"code", "version"}, SUCCESS_CODE, VERSION)

get_config(f) ==
   LET Content(content) ==
          IF ~content.ok THEN Returned(Response("getconfig", {"code"}, 2, Empty), f)
          ELSE Returned(Response("getconfig", {"code", "content"}, SUCCESS_CODE,
                                 content.value), f)
       Config(path) ==
          IF path.some THEN Content(read_to_string(f, path.path))
          ELSE Returned(Response("getconfig", {"code"}, 1, Empty), f)
   IN  Config(get_config_file(f))

get_config_path(f) ==
   LET Binding(binding) ==
          IF ~binding.ok THEN Panicked(f)
          ELSE Returned(Response("getconfigpath", {"code", "content"}, SUCCESS_CODE,
                                 binding.path), f)
       Config(path) ==
          IF path.some THEN Binding(Canonicalize(f, path.path))
          ELSE Returned(Response("getconfigpath", {"code"}, 1, Empty), f)
   IN  Config(get_config_file(f))

read(path0, f) ==
   LET Result(result) ==
          Returned(Response("read", {"code", "content"},
                            IF result.ok THEN SUCCESS_CODE ELSE 2, result.value), f)
   IN  Result(read_to_string(f, expand_tilde(expand_vars(path0))))

\* write: content that matches the data-URL pattern loses the match and is
\* base64-decoded, whatever the pattern's optional groups matched; both
\* unwraps panic.  The file is created at the path as given.
write(path, content0, f, wok) ==
   LET Written(written) ==
          Returned(Response("write", {"code"},
                            IF written.ok THEN SUCCESS_CODE ELSE 2, Empty),
                   written.fs)
       Created(file, content) ==
          IF ~file.ok THEN Returned(Response("write", {"code"}, 2, Empty), f)
          ELSE Written(WriteAll(file.fs, file.at, content, wok))
       Decoded(end, decoded, file) ==
          IF end # 0 /\ (~decoded.ok \/ ~IsUtf8(decoded.bytes)) THEN Panicked(f)
          ELSE Created(file, IF end # 0 THEN decoded.bytes ELSE content0)
       Match(end) ==
          Decoded(end, B64Decode(Slice(content0, end + 1, Len(content0))),
                  FileCreate(f, path))
   IN  Match(DataUrlMatchEnd(content0))

\* writerc without the test of lines 204-205: it writes whatever exists.
write_rc_unguarded(path0, content, force, f, wok) ==
   LET Written(written) ==
          Returned(Response("writerc", {"code"},
                            IF written.ok THEN SUCCESS_CODE ELSE 2, Empty),
                   written.fs)
       Created(file) ==
          IF file.ok THEN Written(WriteAll(file.fs, file.at, content, wok))
          ELSE Returned(Response("writerc", {"code"}, 2, Empty), f)
       At(path) == Created(FileCreate(f, path))
   IN  At(expand_tilde(expand_vars(path0)))

write_rc(path0, content, force, f, wok) ==
   LET Written(written) ==
          Returned(Response("writerc", {"code"},
                            IF written.ok THEN SUCCESS_CODE ELSE 2, Empty),
                   written.fs)
       Created(file) ==
          IF file.ok THEN Written(WriteAll(file.fs, file.at, content, wok))
          ELSE Returned(Response("writerc", {"code"}, 2, Empty), f)
       At(path) ==
          IF ~Exists(f, path) \/ force THEN Created(FileCreate(f, path))
          ELSE Returned(Response("writerc", {"code"}, 1, Empty), f)
   IN  At(expand_tilde(expand_vars(path0)))

create_directory(path0, f) ==
   LET Result(result) ==
          Returned(Response("mkdir", {"code"},
                            IF result.ok THEN SUCCESS_CODE ELSE 2, Empty),
                   result.fs)
   IN  Result(create_dir_all(f, expand_tilde(expand_vars(path0))))

read_directory(path0, f) ==
   LET Listed(is_directory, entries) ==
          Returned([Response("list_dir", {"isDir", "files", "sep"}, 0, <<Slash>>)
                      EXCEPT !.isDir = is_directory, !.files = entries.names], f)
       In(given, is_directory, parent) ==
          Listed(is_directory,
                 ReadDir(f, IF is_directory THEN given
                            ELSE IF parent.some THEN parent.path ELSE Dot))
       Of(given) == In(given, IsDir(f, given), ParentPath(given))
   IN  Of(expand_tilde(path0))

\* The random characters tempfile may draw for a name (six of them).
RandNames == {<<97, 97, 97, 97, 97, 97>>, <<98, 98, 98, 98, 98, 98>>}   \* "aaaaaa", "bbbbbb"

\* temp: a NamedTempFile <temp_dir>/<prefix><random><suffix> is created
\* (exclusively; a taken name is tried again with other random characters),
\* written with one write whose result is ignored, and dropped when temp
\* returns: dropping a NamedTempFile removes the file.
temp(prefix0, content, f, wok, rand) ==
   LET none == [some |-> FALSE, out |-> Returned(NoResp, f)]
       Dropped(path, file, written) ==
          [some |-> TRUE,
           out  |-> Returned(Response("temp", {"code", "content"}, SUCCESS_CODE, path),
                             Without(written.fs, file.at))]
       Made(path, file) ==
          IF ~file.ok THEN none
          ELSE Dropped(path, file, WriteAll(file.fs, file.at, content, wok))
       Drawn(names, free) ==
          IF free = {} THEN none
          ELSE (LET Named(path) == Made(path, FileCreate(f, path))
                IN  Named(names[IF rand \in free THEN rand ELSE CHOOSE r \in free : TRUE]))
       Try(names) == Drawn(names, {r \in DOMAIN names : ~Exists(f, names[r])})
       With(prefix) ==
          Try([r \in RandNames |-> Join(temp_dir, prefix \o r \o <<46, 116, 120, 116>>)])   \* ".txt"
   IN  With(<<116, 109, 112, 95>> \o sanitize_file_name(prefix0) \o <<95>>)   \* "tmp_", "_"

\* move_file.  from.file_name().unwrap() is reached, in can_move or in the
\* rename, exactly when the destination exists, and panics on a source
\* without a file name; remove_file(..).unwrap() panics when the removal
\* fails, and what was renamed before it stays renamed.
move_file(from0, to0, overwrite, cleanup, f) ==
   LET Cleaned(code, after, removed) ==
          IF removed.ok THEN Returned(Response("move", {"code"}, code, Empty), removed.fs)
          ELSE Panicked(after)
       Done(from, code, after) ==
          IF cleanup THEN Cleaned(code, after, remove_file(after, from))
          ELSE Returned(Response("move", {"code"}, code, Empty), after)
       Moved(from, can_move, result) ==
          Done(from,
               IF can_move THEN (IF result.ok THEN SUCCESS_CODE ELSE 2) ELSE 1,
               IF can_move THEN result.fs ELSE f)
       Checked(from, to, base, into, to_there) ==
          IF to_there /\ ~base.some THEN Panicked(f)
          ELSE Moved(from, overwrite \/ ~to_there \/ Exists(f, into),
                     Rename(f, from, IF to_there THEN into ELSE to))
       Named(from, to, base) == Checked(from, to, base, Join(to, base.name), Exists(f, to))
       Paths(from, to) == Named(from, to, file_name(from))
   IN  Paths(expand_tilde(expand_vars(from0)), expand_tilde(expand_vars(to0)))

env(key) ==
   LET Value(value) == IF value.ok THEN Response("env", {"content"}, 0, value.value)
                       ELSE Response("env", {}, 0, Empty)
   IN  Value(EnvVar(key))

\* std::process::id()
ProcessId == 4242

get_process_id == [Response("ppid", {"content"}, 0, Empty) EXCEPT !.num = ProcessId]

(***************************************************************************)
(* Child processes                                                         *)
(***************************************************************************)

\* What `sh -c command` does with a command text: the bytes it writes to its
\* standard output, its exit status (none when a signal killed it), whether
\* it runs for ever.  A text sh cannot run ends with status 127.
Sh(command) ==
   LET echo_hi   == <<101, 99, 104, 111, 32, 104, 105>>   \* "echo hi"
       hi        == <<104, 105>>   \* "hi"
       exit_3    == <<101, 120, 105, 116, 32, 51>>   \* "exit 3"
       kill_9    == <<107, 105, 108, 108, 32, 45, 57, 32, 36, 36>>   \* "kill -9 $$"
       sleep_inf == <<115, 108, 101, 101, 112, 32, 105, 110, 102>>   \* "sleep inf"
       done(out, code) == [out |-> out, status |-> [some |-> TRUE, code |-> code],
                           hangs |-> FALSE]
       none(hangs)     == [out |-> Empty, status |-> [some |-> FALSE, code |-> 0],
                           hangs |-> hangs]
   IN  CASE command = echo_hi   -> done(hi \o <<10>>, 0)
         [] command = exit_3    -> done(Empty, 3)
         [] command = Empty     -> done(Empty, 0)
         [] command = kill_9    -> none(FALSE)
         [] command = sleep_inf -> none(TRUE)
         [] OTHER               -> done(Empty, 127)

\* The programs Command::new can start by name, with what each writes to
\* its standard output for the given arguments; any other name fails to
\* spawn.
RECURSIVE Unwords(_)
Unwords(args) ==
   IF args = <<>> THEN Empty
   ELSE IF Len(args) = 1 THEN args[1]
   ELSE args[1] \o <<32>> \o Unwords(Tail(args))

Program(name, args) ==
   IF name = <<101, 99, 104, 111>> THEN [ok |-> TRUE, out |-> Unwords(args) \o <<10>>]   \* "echo"
   ELSE [ok |-> FALSE, out |-> Empty]

\* char::is_whitespace, on ASCII.
IsWhitespace(b) == b \in {9, 10, 11, 12, 13, 32}

\* str::split_whitespace
RECURSIVE split_whitespace(_)
split_whitespace(s) ==
   LET Word(i, stops) ==
          LET e == IF stops = {} THEN Len(s) + 1
                   ELSE CHOOSE k \in stops : \A j \in stops : k <= j
          IN  <<Slice(s, i, e - 1)>> \o split_whitespace(Slice(s, e, Len(s)))
       From(i) == Word(i, {k \in i..Len(s) : IsWhitespace(s[k])})
       Words(starts) ==
          IF starts = {} THEN <<>>
          ELSE From(CHOOSE k \in starts : \A j \in starts : k <= j)
   IN  Words({i \in 1..Len(s) : ~IsWhitespace(s[i])})

\* How Command::spawn wires a child's standard streams when the builder is
\* given no Stdio: they are the bridge's own.
RunStdio == "inherit"

\* BufRead::lines on the captured bytes, each line pushed with "\n": a line
\* ends at a line feed, and a carriage return before it is dropped.
RECURSIVE JoinLines(_)
JoinLines(buffer) ==
   LET Line(nl, stop) ==
          (IF nl # 0 /\ stop >= 1 /\ buffer[stop] = 13
           THEN Slice(buffer, 1, stop - 1) ELSE Slice(buffer, 1, stop))
          \o <<10>>
          \o (IF nl = 0 THEN Empty ELSE JoinLines(Slice(buffer, nl + 1, Len(buffer))))
       At(nl) == Line(nl, IF nl = 0 THEN Len(buffer) ELSE nl - 1)
   IN  IF buffer = Empty THEN Empty ELSE At(IndexFrom(buffer, 10, 1))

\* run, up to the point where it waits for the child: sh is spawned with the
\* command; content (an Option: [some, text]) is written only when
\* child.stdin.take() is Some, which it is for a piped stream alone; the
\* stream taken is closed when it goes out of scope, before the output is
\* read.
run(command, content, f) ==
   LET taken == content.some /\ RunStdio = "piped"
       Spawned(sh) ==
          [resp |-> NoResp, fs |-> f, panic |-> FALSE,
           spawn |-> [kind |-> "sync", state |-> "running", out |-> sh.out,
                      status |-> sh.status, hangs |-> sh.hangs,
                      stdio |-> RunStdio,
                      input |-> IF taken THEN content.text ELSE Empty,
                      eof   |-> taken]]
   IN  Spawned(Sh(command))

\* run, from the child's exit on: `captured` is what the bridge read from
\* the child's standard output, which it can only when the stream is piped.
run_finish(ch, captured) ==
   LET response == IF RunStdio = "piped" THEN JoinLines(captured) ELSE Empty
       code     == IF ch.status.some THEN ch.status.code % 256 ELSE SUCCESS_CODE
   IN  Response("run", {"code", "result"}, code, response)

\* run_async: arguments.next().unwrap() panics on a command without a word;
\* a failed spawn is only logged.
run_async(command, f) ==
   LET Spawned(result) ==
          [resp |-> Response("run_async", {}, 0, Empty), fs |-> f, panic |-> FALSE,
           spawn |-> IF result.ok
                     THEN [kind |-> "async", state |-> "running", out |-> result.out,
                           status |-> [some |-> TRUE, code |-> 0], hangs |-> FALSE,
                           stdio |-> RunStdio, input |-> Empty, eof |-> FALSE]
                     ELSE NoChild]
       Words(arguments) ==
          IF arguments = <<>> THEN Panicked(f)
          ELSE Spawned(Program(arguments[1], Tail(arguments)))
   IN  Words(split_whitespace(command))

(***************************************************************************)
(* handle_command (main.rs)                                                *)
(***************************************************************************)

\* The name handle_command matches on: the cmd string of an object, "" for
\* a cmd that is no string; none for a value without cmd.
CommandName(command) ==
   IF command.t = "obj" /\ "cmd" \in DOMAIN command.m
   THEN [some |-> TRUE,
         name |-> IF command.m["cmd"].t = "str" THEN command.m["cmd"].s ELSE Empty]
   ELSE [some |-> FALSE, name |-> Empty]

\* The handler handle_command invokes for a message, with the arguments it
\* extracts ("none": the message is answered with the error value).
HandlerCall(command) ==
   LET map   == command.m
       s(k)  == ParamStr(map, k)
       b(k)  == ParamBool(map, k)
       c0(fn) == Call(fn, Empty, Empty, Empty, FALSE, FALSE)
       Named(name) ==
          CASE name = <<101, 110, 118>> ->   \* "env"
                  IF "var" \in DOMAIN map /\ map["var"].t = "str"
                  THEN Call("env", map["var"].s, Empty, Empty, FALSE, FALSE)
                  ELSE NoCall
            [] name = <<118, 101, 114, 115, 105, 111, 110>> -> c0("version")   \* "version"
            [] name = <<103, 101, 116, 99, 111, 110, 102, 105, 103>> ->   \* "getconfig"
                  c0("get_config")
            [] name = <<103, 101, 116, 99, 111, 110, 102, 105, 103,   \* "getconfigpath"
                        112, 97, 116, 104>> ->
                  c0("get_config_path")
            [] name = <<114, 101, 97, 100>> ->   \* "read"
                  Call("read", s("file"), Empty, Empty, FALSE, FALSE)
            [] name = <<119, 114, 105, 116, 101>> ->   \* "write"
                  Call("write", s("file"), Empty, s("content"), FALSE, FALSE)
            [] name = <<119, 114, 105, 116, 101, 114, 99>> ->   \* "writerc"
                  Call("write_rc", s("file"), Empty, s("content"), b("force"), FALSE)
            [] name = <<109, 111, 118, 101>> ->   \* "move"
                  Call("move_file", s("from"), s("to"), Empty, b("overwrite"), b("cleanup"))
            [] name = <<109, 107, 100, 105, 114>> ->   \* "mkdir"
                  Call("create_directory", s("dir"), Empty, Empty, FALSE, FALSE)
            [] name = <<108, 105, 115, 116, 95, 100, 105, 114>> ->   \* "list_dir"
                  Call("read_directory", s("path"), Empty, Empty, FALSE, FALSE)
            [] name = <<116, 101, 109, 112>> ->   \* "temp"
                  Call("temp", s("prefix"), Empty, s("content"), FALSE, FALSE)
            [] name = <<114, 117, 110>> ->   \* "run"
                  \* f1: content is Some
                  Call("run", s("command"), Empty, s("content"),
                       "content" \in DOMAIN map /\ map["content"].t = "str", FALSE)
            [] name = <<114, 117, 110, 95, 97, 115, 121, 110, 99>> ->   \* "run_async"
                  Call("run_async", s("command"), Empty, Empty, FALSE, FALSE)
            [] name = <<112, 112, 105, 100>> -> c0("get_process_id")   \* "ppid"
            [] OTHER -> NoCall
       Of(name) == IF ~name.some THEN NoCall ELSE Named(name.name)
   IN  Of(CommandName(command))

\* The handler's outcome; wok and rand are what the device and the random
\* generator decide during the call.
Invoke(c, f, wok, rand) ==
   LET Some(t) == IF t.some THEN t.out ELSE Returned(ErrorResponse, f)
   IN  CASE c.fn = "none"             -> Returned(ErrorResponse, f)
         [] c.fn = "env"              -> Returned(env(c.p1), f)
         [] c.fn = "version"          -> Returned(version, f)
         [] c.fn = "get_config"       -> get_config(f)
         [] c.fn = "get_config_path"  -> get_config_path(f)
         [] c.fn = "read"             -> read(c.p1, f)
         [] c.fn = "write"            -> write(c.p1, c.text, f, wok)
         [] c.fn = "write_rc"         -> write_rc(c.p1, c.text, c.f1, f, wok)
         [] c.fn = "move_file"        -> move_file(c.p1, c.p2, c.f1, c.f2, f)
         [] c.fn = "create_directory" -> create_directory(c.p1, f)
         [] c.fn = "read_directory"   -> read_directory(c.p1, f)
         [] c.fn = "temp"             -> Some(temp(c.p1, c.text, f, wok, rand))
         [] c.fn = "run"              -> run(c.p1, [some |-> c.f1, text |-> c.text], f)
         [] c.fn = "run_async"        -> run_async(c.p1, f)
         [] c.fn = "get_process_id"   -> Returned(get_process_id, f)

handle_command(command, f, wok, rand) ==
   LET Do(c) == Invoke(c, f, wok, rand) IN Do(HandlerCall(command))

(***************************************************************************)
(* The messages a client sends                                             *)
(***************************************************************************)

\* An object with a cmd and the given fields.
Msg(cmd, fields) == JObj(("cmd" :> JStr(cmd)) @@ fields)
None == <<>>
F1(k, v) == k :> v
F2(k1, v1, k2, v2) == (k1 :> v1) @@ (k2 :> v2)
Str3(k1, s1, k2, s2, k3, v3) == (k1 :> JStr(s1)) @@ (k2 :> JStr(s2)) @@ (k3 :> v3)
Move(from, to, overwrite, cleanup) ==
   Msg(<<109, 111, 118, 101>>, ("from" :> JStr(from)) @@ ("to" :> JStr(to))   \* "move"
                 @@ ("overwrite" :> JBool(overwrite)) @@ ("cleanup" :> JBool(cleanup)))

\* The path temp answers with for the prefix "P." and the first random name.
TempPath ==   \* "/tmp/tmp_p._aaaaaa.txt"
   <<47, 116, 109, 112, 47, 116, 109, 112, 95, 112, 46, 95, 97, 97, 97, 97, 97, 97,
     46, 116, 120, 116>>

Base64Url ==   \* "data:text/plain;base64,aGk=" (the base64 of "hi")
   <<100, 97, 116, 97, 58, 116, 101, 120, 116, 47, 112, 108, 97, 105, 110, 59, 98, 97, 115,
     101, 54, 52, 44, 97, 71, 107, 61>>
PlainUrl ==   \* "data:text/plain,hello"
   <<100, 97, 116, 97, 58, 116, 101, 120, 116, 47, 112, 108, 97, 105, 110, 44, 104, 101, 108,
     108, 111>>

\* Values that are not objects, objects without a usable cmd, unknown
\* commands; fields missing, of the wrong type, or extra.
Malformed ==
   LET a         == <<97>>   \* "a"
       a_version == <<118, 101, 114, 115, 105, 111, 110>>   \* "version"
       bogus     == <<98, 111, 103, 117, 115>>   \* "bogus"
       Read      == <<82, 101, 97, 100>>   \* "Read"
       an_env    == <<101, 110, 118>>   \* "env"
   IN  { JNum, JStr(a_version), JObj(None), JObj(F1("cmd", JNum)), JObj(F1("cmd", JNull)),
         JObj(F1("file", JStr(a))),
         Msg(bogus, None), Msg(Read, F1("file", JStr(a))),
         Msg(an_env, None), Msg(an_env, F1("var", JNum)) }

Queries ==
   LET a             == <<97>>   \* "a"
       d             == <<100>>   \* "d"
       U             == <<85>>   \* "U"
       V             == <<86>>   \* "V"
       an_env        == <<101, 110, 118>>   \* "env"
       a_version     == <<118, 101, 114, 115, 105, 111, 110>>   \* "version"
       getconfig     == <<103, 101, 116, 99, 111, 110, 102, 105, 103>>   \* "getconfig"
       getconfigpath ==   \* "getconfigpath"
          <<103, 101, 116, 99, 111, 110, 102, 105, 103, 112, 97, 116, 104>>
       ppid          == <<112, 112, 105, 100>>   \* "ppid"
       list_dir      == <<108, 105, 115, 116, 95, 100, 105, 114>>   \* "list_dir"
   IN  { Msg(an_env, F1("var", JStr(V))), Msg(an_env, F1("var", JStr(U))),
         Msg(a_version, F1("extra", JNum)), Msg(getconfig, None),
         Msg(getconfigpath, None), Msg(ppid, None),
         Msg(list_dir, F1("path", JStr(d))), Msg(list_dir, F1("path", JStr(a))),
         Msg(list_dir, None) }

Reads ==
   LET cmd   == <<114, 101, 97, 100>>   \* "read"
       a     == <<97>>   \* "a"
       n     == <<110>>   \* "n"
       tilde == <<126>>   \* "~"
       var   == <<36, 86>>   \* "$V"
       rc    ==   \* "~/.tridactylrc"
          <<126, 47, 46, 116, 114, 105, 100, 97, 99, 116, 121, 108, 114, 99>>
   IN  { Msg(cmd, F1("file", JStr(p))) : p \in {a, n, tilde, var, rc, TempPath} }
       \cup { Msg(cmd, None), Msg(cmd, F1("file", JBool(TRUE))) }

Writes ==
   LET cmd    == <<119, 114, 105, 116, 101>>   \* "write"
       n      == <<110>>   \* "n"
       tilde  == <<126>>   \* "~"
       var    == <<36, 86>>   \* "$V"
       nested == <<113, 47, 110>>   \* "q/n"
       hi     == <<104, 105>>   \* "hi"
   IN  { Msg(cmd, F2("file", JStr(n), "content", JStr(c))) : c \in {hi, Base64Url, PlainUrl} }
       \cup { Msg(cmd, F2("file", JStr(p), "content", JStr(hi))) : p \in {tilde, var, nested} }
       \cup { Msg(cmd, None), Msg(cmd, F2("file", JStr(n), "content", JNum)) }

WriteRcs ==
   LET cmd  == <<119, 114, 105, 116, 101, 114, 99>>   \* "writerc"
       a    == <<97>>   \* "a"
       d    == <<100>>   \* "d"
       n    == <<110>>   \* "n"
       hi   == <<104, 105>>   \* "hi"
       true == <<116, 114, 117, 101>>   \* "true"
   IN  { Msg(cmd, Str3("file", p, "content", hi, "force", JBool(force))) :
            p \in {a, n, d}, force \in BOOLEAN }
       \cup { Msg(cmd, None),
              Msg(cmd, Str3("file", a, "content", hi, "force", JStr(true))) }

Moves ==
   LET a == <<97>>   \* "a"
       b == <<98>>   \* "b"
       d == <<100>>   \* "d"
       n == <<110>>   \* "n"
   IN  { Move(a, b, overwrite, cleanup) : overwrite \in BOOLEAN, cleanup \in BOOLEAN }
       \cup { Move(a, n, FALSE, cleanup) : cleanup \in BOOLEAN }
       \cup { Move(a, d, FALSE, FALSE), Move(b, d, FALSE, FALSE),
              Move(b, d, TRUE, FALSE), Move(Empty, d, FALSE, FALSE),
              Msg(<<109, 111, 118, 101>>, None) }   \* "move"

Mkdirs ==
   LET cmd    == <<109, 107, 100, 105, 114>>   \* "mkdir"
       a      == <<97>>   \* "a"
       d      == <<100>>   \* "d"
       nested == <<112, 47, 113>>   \* "p/q"
       config ==   \* "$HOME/.config/tridactyl/tridactylrc"
          <<36, 72, 79, 77, 69, 47, 46, 99, 111, 110, 102, 105, 103, 47, 116, 114, 105, 100,
            97, 99, 116, 121, 108, 47, 116, 114, 105, 100, 97, 99, 116, 121, 108, 114, 99>>
   IN  { Msg(cmd, F1("dir", JStr(p))) : p \in {nested, d, a, config} } \cup { Msg(cmd, None) }

Temps ==
   LET cmd    == <<116, 101, 109, 112>>   \* "temp"
       prefix == <<80, 46>>   \* "P."
       dots   == <<46, 46, 46>>   \* "..."
       hi     == <<104, 105>>   \* "hi"
   IN  { Msg(cmd, F2("prefix", JStr(p), "content", JStr(hi))) : p \in {prefix, dots} }
       \cup { Msg(cmd, None) }

Runs ==
   LET cmd     == <<114, 117, 110>>   \* "run"
       echo_hi == <<101, 99, 104, 111, 32, 104, 105>>   \* "echo hi"
       exit_3  == <<101, 120, 105, 116, 32, 51>>   \* "exit 3"
       kill_9  == <<107, 105, 108, 108, 32, 45, 57, 32, 36, 36>>   \* "kill -9 $$"
       in      == <<105, 110>>   \* "in"
       sleep   == <<115, 108, 101, 101, 112, 32, 105, 110, 102>>   \* "sleep inf"
   IN  { Msg(cmd, F1("command", JStr(c))) : c \in {echo_hi, exit_3, kill_9, sleep} }
       \cup { Msg(cmd, None),
              Msg(cmd, F2("command", JStr(echo_hi), "content", JStr(in))),
              Msg(cmd, F2("command", JStr(exit_3), "content", JNum)) }

RunAsyncs ==
   LET cmd     == <<114, 117, 110, 95, 97, 115, 121, 110, 99>>   \* "run_async"
       echo_hi == <<101, 99, 104, 111, 32, 104, 105>>   \* "echo hi"
       nosuch  == <<110, 111, 115, 117, 99, 104>>   \* "nosuch"
       blank   == <<32, 32>>   \* "  "
   IN  { Msg(cmd, F1("command", JStr(c))) : c \in {echo_hi, nosuch, blank} }
       \cup { Msg(cmd, None) }

Messages ==
   Malformed \cup Queries \cup Reads \cup Writes \cup WriteRcs \cup Moves
   \cup Mkdirs \cup Temps \cup Runs \cup RunAsyncs

(***************************************************************************)
(* The bridge                                                              *)
(***************************************************************************)

\* How many non-empty frames, and how many empty ones, a client sends.
MaxFrames == 2
MaxZero   == 2

VARIABLES
   pc,      \* where main is: "recv_len", "recv_body", "dispatch", "run_wait",
            \* "send_len", "send_body", "send_flush", "panicked"
   why,     \* the unwrap that panicked: "", "short_read", "decode", "handler"
   msg,     \* the decoded message being dispatched
   call,    \* the handler invoked for the current message, with its arguments
   resp,    \* the response to the current message
   prev,    \* the call and the response of the message answered last, when
            \* its handler is one of Tracked
   fs,      \* the filesystem
   outbuf,  \* the buffer of stdout: the chunks written and not yet flushed
   wire,    \* the output channel: the chunks that reached the client
   nreq,    \* the number of non-empty frames whose header was read
   zrun,    \* the number of empty frames read since the last response was
            \* flushed: those that precede the frame being read or answered
   child,   \* the child process of the `run` being answered
   bg       \* the detached children of run_async still running

vars == <<pc, why, msg, call, resp, prev, fs, outbuf, wire, nreq, zrun, child, bg>>

Dir(cp)        == cp :> DirNode
File(cp, data) == cp :> FileNode(data)

\* The filesystem the bridge starts in: a working directory with two
\* files, and a directory that holds an entry named like the first; a home
\* directory with the dot-file configuration; a temporary directory.
InitFs ==
   LET w  == <<119>>   \* "w"
       h  == <<104>>   \* "h"
       a  == <<97>>   \* "a"
       b  == <<98>>   \* "b"
       d  == <<100>>   \* "d"
       rc == <<46, 116, 114, 105, 100, 97, 99, 116, 121, 108, 114, 99>>   \* ".tridactylrc"
   IN  Dir(<<w>>) @@ File(<<w, a>>, <<120>>) @@ File(<<w, b>>, <<121>>)   \* "x", "y"
       @@ Dir(<<w, d>>) @@ File(<<w, d, a>>, <<122>>)   \* "z"
       @@ Dir(<<h>>) @@ File(<<h, rc>>, <<114, 99>>)   \* "rc"
       @@ Dir(<<<<116, 109, 112>>>>)   \* "tmp"

NoMsg == JNull

Init ==
   /\ pc = "recv_len"
   /\ why = ""
   /\ msg = NoMsg
   /\ call = NoCall
   /\ resp = NoResp
   /\ prev = [call |-> NoCall, resp |-> NoResp]
   /\ fs = InitFs
   /\ outbuf = <<>>
   /\ wire = <<>>
   /\ nreq = 0
   /\ zrun = 0
   /\ child = NoChild
   /\ bg = {}

\* A chunk of the output channel: the length prefix ("len") or the payload
\* ("body") of the response to request req, or bytes a child of that
\* request wrote ("child").
Chunk(kind, req) == [kind |-> kind, req |-> req]

\* The handlers whose call and response are remembered in prev for the
\* request that follows.
Tracked == {"write", "temp", "create_directory"}

Panic(reason) ==
   /\ pc' = "panicked"
   /\ why' = reason

\* A bridge that takes the empty frame for the end of the input and leaves
\* its loop.
RecvZeroLeavesLoop ==
   /\ pc = "recv_len"
   /\ zrun < MaxZero
   /\ zrun' = zrun + 1
   /\ pc' = "exited"
   /\ UNCHANGED <<why, msg, call, resp, prev, fs, outbuf, wire, nreq, child, bg>>

\* get_message: the header is read and its length is 0: None.
RecvZero ==
   /\ pc = "recv_len"
   /\ zrun < MaxZero
   /\ zrun' = zrun + 1
   /\ UNCHANGED <<pc, why, msg, call, resp, prev, fs, outbuf, wire, nreq, child, bg>>

\* get_message: the header is read and its length is not 0.
RecvLength ==
   /\ pc = "recv_len"
   /\ nreq < MaxFrames
   /\ pc' = "recv_body"
   /\ nreq' = nreq + 1
   /\ UNCHANGED <<why, msg, call, resp, prev, fs, outbuf, wire, zrun, child, bg>>

\* get_message: the input ends before the header or the payload is
\* complete: read_exact(..).unwrap() panics.
RecvShort ==
   /\ pc \in {"recv_len", "recv_body"}
   /\ Panic("short_read")
   /\ UNCHANGED <<msg, call, resp, prev, fs, outbuf, wire, nreq, zrun, child, bg>>

\* get_message: the payload is not UTF-8 or not JSON: the unwrap panics.
RecvUndecodable ==
   /\ pc = "recv_body"
   /\ Panic("decode")
   /\ UNCHANGED <<msg, call, resp, prev, fs, outbuf, wire, nreq, zrun, child, bg>>

\* get_message: the payload decodes to a JSON value.
RecvBody ==
   /\ pc = "recv_body"
   /\ \E m \in Messages : msg' = m
   /\ pc' = "dispatch"
   /\ UNCHANGED <<why, call, resp, prev, fs, outbuf, wire, nreq, zrun, child, bg>>

\* send_message: handle_command(&json).  A handler that panics ends the
\* process; run goes on to wait for its child.
Dispatch ==
   /\ pc = "dispatch"
   /\ \E wok \in BOOLEAN, rand \in RandNames :
         \E out \in {handle_command(msg, fs, wok, rand)} :
             /\ fs' = out.fs
             /\ call' = HandlerCall(msg)
             /\ resp' = out.resp
             /\ IF out.panic THEN Panic("handler")
                ELSE /\ pc' = IF out.spawn.kind = "sync" THEN "run_wait" ELSE "send_len"
                     /\ why' = why
             /\ child' = IF out.spawn.kind = "sync" THEN out.spawn ELSE child
             /\ bg' = IF out.spawn.kind = "async"
                      THEN bg \cup {[req |-> nreq, out |-> out.spawn.out]} ELSE bg
   /\ msg' = NoMsg
   /\ UNCHANGED <<prev, outbuf, wire, nreq, zrun>>

\* The child of run writes its output and exits.  Its standard output is
\* the bridge's unless it is piped.
ChildRun ==
   /\ pc = "run_wait"
   /\ child.state = "running"
   /\ ~child.hangs
   /\ child' = [child EXCEPT !.state = "exited"]
   /\ wire' = IF RunStdio = "inherit" /\ child.out # Empty
              THEN Append(wire, Chunk("child", nreq)) ELSE wire
   /\ UNCHANGED <<pc, why, msg, call, resp, prev, fs, outbuf, nreq, zrun, bg>>

\* A run that does not wait for its child: the response is built while the
\* child may still be running.
RunFinishEarly ==
   /\ pc = "run_wait"
   /\ child.state \in {"running", "exited"}
   /\ resp' = run_finish(child, child.out)
   /\ pc' = "send_len"
   /\ UNCHANGED <<why, msg, call, prev, fs, outbuf, wire, nreq, zrun, child, bg>>

\* run: child.wait() returns and the response is built.
RunFinish ==
   /\ pc = "run_wait"
   /\ child.state = "exited"
   /\ resp' = run_finish(child, child.out)
   /\ pc' = "send_len"
   /\ UNCHANGED <<why, msg, call, prev, fs, outbuf, wire, nreq, zrun, child, bg>>

\* A detached child of run_async writes its output to the standard output
\* it inherited, and exits.
BgChildRun ==
   /\ \E c \in bg :
         /\ bg' = bg \ {c}
         /\ wire' = Append(wire, Chunk("child", c.req))
   /\ UNCHANGED <<pc, why, msg, call, resp, prev, fs, outbuf, nreq, zrun, child>>

\* send_message: handle.write(length)
SendLength ==
   /\ pc = "send_len"
   /\ outbuf' = Append(outbuf, Chunk("len", nreq))
   /\ pc' = "send_body"
   /\ UNCHANGED <<why, msg, call, resp, prev, fs, wire, nreq, zrun, child, bg>>

\* send_message: handle.write(response)
SendBody ==
   /\ pc = "send_body"
   /\ outbuf' = Append(outbuf, Chunk("body", nreq))
   /\ pc' = "send_flush"
   /\ UNCHANGED <<why, msg, call, resp, prev, fs, wire, nreq, zrun, child, bg>>

\* A bridge that leaves out the flush of line 193: the response stays in the
\* buffer while the next message is read.
FlushLeftOut ==
   /\ pc = "send_flush"
   /\ prev' = IF call.fn \in Tracked THEN [call |-> call, resp |-> resp]
              ELSE [call |-> NoCall, resp |-> NoResp]
   /\ call' = NoCall
   /\ resp' = NoResp
   /\ child' = NoChild
   /\ zrun' = 0
   /\ pc' = "recv_len"
   /\ UNCHANGED <<why, msg, fs, nreq, bg, wire, outbuf>>

\* send_message: handle.flush(); main loops to the next get_message.
Flush ==
   /\ pc = "send_flush"
   /\ wire' = wire \o outbuf
   /\ outbuf' = <<>>
   /\ prev' = IF call.fn \in Tracked THEN [call |-> call, resp |-> resp]
              ELSE [call |-> NoCall, resp |-> NoResp]
   /\ call' = NoCall
   /\ resp' = NoResp
   /\ child' = NoChild
   /\ zrun' = 0
   /\ pc' = "recv_len"
   /\ UNCHANGED <<why, msg, fs, nreq, bg>>

Next ==
   \/ RecvZero \/ RecvLength \/ RecvShort \/ RecvUndecodable \/ RecvBody
   \/ Dispatch \/ ChildRun \/ RunFinish \/ BgChildRun
   \/ SendLength \/ SendBody \/ Flush

Spec == Init /\ [][Next]_vars

(***************************************************************************)
(* Properties                                                              *)
(***************************************************************************)

\* The chunks of the output channel that the bridge itself wrote.
Frames(w) == SelectSeq(w, LAMBDA c : c.kind # "child")

\* The response frames of requests 1..k, one after the other.
FramesOf(k) ==
   [i \in 1..(2 * k) |-> [kind |-> IF i % 2 = 1 THEN "len" ELSE "body",
                          req  |-> (i + 1) \div 2]]

\* C1: dispatch answers every valid JSON message and never panics: the
\* process never ends in a handler's unwrap.
DispatchNeverPanics == ~(pc = "panicked" /\ why = "handler")

\* C2: the output channel holds exactly one response frame per request, in
\* the order of receipt; while a request is being read or dispatched every
\* earlier response is on the channel, whole and flushed; at most one
\* request is in progress.
OneResponsePerRequestInOrder ==
   /\ pc = "recv_len" /\ why = "" => Frames(wire) = FramesOf(nreq) /\ outbuf = <<>>
   /\ pc \in {"recv_body", "dispatch", "run_wait", "send_len"}
         => Frames(wire) = FramesOf(nreq - 1) /\ outbuf = <<>>
   /\ pc = "send_body"
         => Frames(wire) = FramesOf(nreq - 1) /\ outbuf = <<Chunk("len", nreq)>>
   /\ pc = "send_flush"
         => /\ Frames(wire) = FramesOf(nreq - 1)
            /\ outbuf = <<Chunk("len", nreq), Chunk("body", nreq)>>
   /\ pc = "panicked"
         => Frames(wire) \in {FramesOf(nreq), FramesOf(nreq - 1)}

\* C2, witness: two requests were answered, and the bridge reads on.
TwoRequestsAnswered ==
   pc = "recv_len" /\ nreq = 2 /\ Frames(wire) = FramesOf(2) /\ outbuf = <<>>

\* The text the round-trip claim expects read to return for written
\* content c: the decoded payload of data:text/plain;base64,<b64>, else c.
ClaimedStored(c) ==
   LET head == <<100, 97, 116, 97, 58, 116, 101, 120, 116, 47, 112, 108,
                   97, 105, 110, 59, 98, 97, 115, 101, 54, 52, 44>>   \* "data:text/plain;base64,"
   IN  IF StartsWith(c, head) THEN B64Decode(Slice(c, Len(head) + 1, Len(c))).bytes ELSE c

\* C3: a write of content c to path p answered with code 0 and followed at
\* once by a read of p yields code 0 and the content c (the decoded payload
\* for a base64 data URL).
WriteThenReadRoundTrips ==
   (/\ pc = "send_len" /\ call.fn = "read"
    /\ prev.call.fn = "write" /\ prev.resp.code = 0 /\ prev.call.p1 = call.p1)
   => resp.code = 0 /\ resp.text = ClaimedStored(prev.call.text)

\* C4: a read of the path a temp request was answered with, sent right
\* after that answer, yields code 0 and the content given to temp.
TempFileReadableAfterTemp ==
   (/\ pc = "send_len" /\ call.fn = "read"
    /\ prev.call.fn = "temp" /\ prev.resp.cmd = "temp" /\ call.p1 = prev.resp.text)
   => resp.code = 0 /\ resp.text = prev.call.text

\* C5: the response to run carries the child's exit status as code (0 when
\* it has none) and, as result, the lines of what the child wrote to its
\* standard output, each ended by a line feed.
RunReturnsOutputAndStatus ==
   (pc = "send_len" /\ call.fn = "run")
   => /\ resp.cmd = "run"
      /\ resp.code = (IF child.status.some THEN child.status.code ELSE 0)
      /\ resp.text = JoinLines(child.out)

\* C6: a move with overwrite = false whose destination exists and holds no
\* entry named like the source is answered with code 1, and the source file
\* and the destination are afterwards what they were, for either value of
\* cleanup.
DeclinedMoveTouchesNothing ==
   [][LET c    == HandlerCall(msg)
          from == expand_tilde(expand_vars(c.p1))
          to   == expand_tilde(expand_vars(c.p2))
          src  == Resolve(fs, from).path
          dst  == Resolve(fs, to).path
      IN  (/\ pc = "dispatch" /\ pc' # pc /\ c.fn = "move_file" /\ ~c.f1
           /\ read_to_string(fs, from).ok /\ Exists(fs, to)
           /\ file_name(from).some /\ ~Exists(fs, Join(to, file_name(from).name)))
          => /\ resp'.cmd = "move" /\ resp'.code = 1
             /\ src \in DOMAIN fs' /\ fs'[src] = fs[src]
             /\ ExistsAt(fs', dst) /\ (dst # <<>> => fs'[dst] = fs[dst])]_vars

\* C7: writerc writes only when the target does not exist or force is set.
\* Otherwise the code is 1 and the filesystem is unchanged.  When it writes,
\* the code is 0 or 2, and 0 exactly when the target holds the given content
\* afterwards.
WriteRcWritesOnlyWhenAllowed ==
   [][LET c       == HandlerCall(msg)
          path    == expand_tilde(expand_vars(c.p1))
          existed == Exists(fs, path)
      IN  (pc = "dispatch" /\ pc' # pc /\ c.fn = "write_rc")
          => /\ resp'.cmd = "writerc"
             /\ (existed /\ ~c.f1) => (resp'.code = 1 /\ fs' = fs)
             /\ (~existed \/ c.f1)
                  => /\ resp'.code \in {0, 2}
                     /\ resp'.code = 0 <=>
                           read_to_string(fs', path) = [ok |-> TRUE, value |-> c.text]
                     /\ \A q \in (DOMAIN fs \cup DOMAIN fs') \ {Resolve(fs, path).path} :
                           q \in DOMAIN fs /\ q \in DOMAIN fs' /\ fs'[q] = fs[q]]_vars

\* C7, witness: a forced writerc on a file that existed was answered with
\* code 0, and the file holds the new content.
ForcedWriteRcOverwrote ==
   /\ pc = "send_len" /\ call.fn = "write_rc" /\ call.f1 /\ resp.code = 0
   /\ call.p1 = <<97>>   \* "a"
   /\ read_to_string(fs, call.p1) = [ok |-> TRUE, value |-> call.text]
   /\ call.text # InitFs[<<<<119>>, <<97>>>>].data   \* "w", "a"

\* C8: input that ends inside a frame ends the session cleanly: the process
\* exits, and not by a panic.
ShortFrameEndsSessionCleanly == why = "short_read" => pc = "exited"

\* C9: a frame of length 0 changes nothing but the count of empty frames:
\* nothing is dispatched, nothing is written, and the bridge does not stop
\* but is reading the next header.
EmptyFrameIsSkipped ==
   [][zrun' > zrun
        => /\ pc = "recv_len" /\ pc' = "recv_len"
           /\ UNCHANGED <<why, msg, call, resp, prev, fs, outbuf, wire, nreq, child, bg>>]_vars

\* C9, witness: a request read after MaxZero empty frames was dispatched and
\* its response frame is written, about to be flushed.
AnsweredAfterEmptyFrames ==
   /\ pc = "send_flush" /\ zrun = MaxZero /\ resp # NoResp
   /\ outbuf = <<Chunk("len", nreq), Chunk("body", nreq)>>

\* The parameters of each command, by the table of commands: the handler,
\* and the keys of its first path, second path, text and two flags.
CommandTable ==
   LET row(fn, p1, p2, text, f1, f2) ==
          [fn |-> fn, p1 |-> p1, p2 |-> p2, text |-> text, f1 |-> f1, f2 |-> f2]
   IN  (<<118, 101, 114, 115, 105, 111, 110>> :>   \* "version"
          row("version", "", "", "", "", ""))
    @@ (<<103, 101, 116, 99, 111, 110, 102, 105, 103>> :>   \* "getconfig"
          row("get_config", "", "", "", "", ""))
    @@ (<<103, 101, 116, 99, 111, 110, 102, 105, 103, 112, 97, 116, 104>> :>   \* "getconfigpath"
          row("get_config_path", "", "", "", "", ""))
    @@ (<<114, 101, 97, 100>> :>   \* "read"
          row("read", "file", "", "", "", ""))
    @@ (<<119, 114, 105, 116, 101>> :>   \* "write"
          row("write", "file", "", "content", "", ""))
    @@ (<<119, 114, 105, 116, 101, 114, 99>> :>   \* "writerc"
          row("write_rc", "file", "", "content", "force", ""))
    @@ (<<109, 111, 118, 101>> :>   \* "move"
          row("move_file", "from", "to", "", "overwrite", "cleanup"))
    @@ (<<109, 107, 100, 105, 114>> :>   \* "mkdir"
          row("create_directory", "dir", "", "", "", ""))
    @@ (<<108, 105, 115, 116, 95, 100, 105, 114>> :>   \* "list_dir"
          row("read_directory", "path", "", "", "", ""))
    @@ (<<116, 101, 109, 112>> :>   \* "temp"
          row("temp", "prefix", "", "content", "", ""))
    @@ (<<114, 117, 110, 95, 97, 115, 121, 110, 99>> :>   \* "run_async"
          row("run_async", "command", "", "", "", ""))
    @@ (<<112, 112, 105, 100>> :>   \* "ppid"
          row("get_process_id", "", "", "", "", ""))

\* The message is one the dispatcher answers with the error response.
Unhandled(m) ==
   LET an_env == <<101, 110, 118>>   \* "env"
       a_run  == <<114, 117, 110>>   \* "run"
   IN  \/ m.t # "obj"
       \/ "cmd" \notin DOMAIN m.m
       \/ m.m["cmd"].t # "str"
       \/ m.m["cmd"].s \notin DOMAIN CommandTable \cup {an_env, a_run}
       \/ m.m["cmd"].s = an_env /\ ("var" \notin DOMAIN m.m \/ m.m["var"].t # "str")

\* The call the table prescribes for a handled message: every parameter
\* that is missing or of the wrong type takes its default.
TableCall(m) ==
   LET an_env == <<101, 110, 118>>   \* "env"
       a_run  == <<114, 117, 110>>   \* "run"
       name == m.m["cmd"].s
       row  == CommandTable[name]
       str(k)  == IF k # "" /\ k \in DOMAIN m.m /\ m.m[k].t = "str" THEN m.m[k].s ELSE Empty
       flag(k) == IF k # "" /\ k \in DOMAIN m.m /\ m.m[k].t = "bool" THEN m.m[k].b ELSE FALSE
   IN  IF name = an_env THEN Call("env", m.m["var"].s, Empty, Empty, FALSE, FALSE)
       ELSE IF name = a_run
       THEN Call("run", str("command"), Empty, str("content"),
                 "content" \in DOMAIN m.m /\ m.m["content"].t = "str", FALSE)
       ELSE Call(row.fn, str(row.p1), str(row.p2), str(row.text), flag(row.f1), flag(row.f2))

\* C10: a message that is not an object, or has no cmd, a cmd that is not a
\* string or not in the table (or is env without a string var) is answered
\* with the error response, and no handler runs: filesystem and processes
\* stay as they are.  Any other message reaches its handler, with the
\* table's default for every missing or wrong-typed parameter.
UnhandledIsErrorElseDefaults ==
   [][pc = "dispatch" /\ pc' # pc
        => IF Unhandled(msg)
           THEN /\ resp' = ErrorResponse /\ call' = NoCall /\ pc' = "send_len"
                /\ UNCHANGED <<fs, child, bg>>
           ELSE call' = TableCall(msg)]_vars

\* C10, witness: a write without parameters reached its handler on the
\* defaults alone, and the next message was answered with the error
\* response without a handler.
ErrorAnsweredWithoutHandler ==
   /\ pc = "send_len" /\ resp = ErrorResponse /\ call = NoCall
   /\ prev.call = Call("write", Empty, Empty, Empty, FALSE, FALSE)

\* C11: the base name of the path temp answers with is "tmp_", then the
\* sanitized prefix, then "_", six random characters and ".txt"; the
\* sanitized prefix holds only lowercase letters, digits and dots, and no
\* two dots in a row.
TempNameIsSanitized ==
   LET tmp_ == <<116, 109, 112, 95>>   \* "tmp_"
       tail == 1 + 6 + 4   \* "_", the random characters, ".txt"
       Stem(stem) ==
          /\ \A i \in 1..Len(stem) : IsLower(stem[i]) \/ IsDigit(stem[i]) \/ stem[i] = 46   \* '.'
          /\ FindFrom(stem, DotDot, 1) = 0
       Named(base) ==
          /\ base.some
          /\ StartsWith(base.name, tmp_)
          /\ Len(base.name) >= Len(tmp_) + tail
          /\ Stem(Slice(base.name, Len(tmp_) + 1, Len(base.name) - tail))
   IN  (pc = "send_len" /\ call.fn = "temp" /\ resp.cmd = "temp")
       => Named(file_name(resp.text))

\* C12: a mkdir request that follows an identical mkdir request answered
\* with code 0 is answered with code 0 as well, and changes nothing in the
\* filesystem.
MkdirIsIdempotent ==
   [][(/\ pc = "dispatch" /\ pc' # pc
       /\ prev.call.fn = "create_directory" /\ prev.resp.code = 0
       /\ HandlerCall(msg) = prev.call)
      => resp'.cmd = "mkdir" /\ resp'.code = 0 /\ fs' = fs]_vars

\* C12, witness: the nested directory p/q was created by the request before,
\* and the same request has been answered again with code 0.
MkdirRepeated ==
   /\ pc = "send_len" /\ call.fn = "create_directory" /\ resp.code = 0
   /\ prev.call = call /\ prev.resp.code = 0
   /\ call.p1 = <<112, 47, 113>>   \* "p/q"
   /\ IsDir(fs, call.p1)
   /\ ~IsDir(InitFs, call.p1)

\* C13: every move request is answered, and the code of the answer tells
\* what became of the rename: 1 when the move was not permitted and no rename
\* was attempted, 0 when the rename was done, 2 when it was attempted and
\* failed; this for every value of overwrite and cleanup, and a source that
\* is a regular file.
MoveAnsweredWithRenameCode ==
   [][LET c         == HandlerCall(msg)
          from      == expand_tilde(expand_vars(c.p1))
          to        == expand_tilde(expand_vars(c.p2))
          into      == Join(to, file_name(from).name)
          permitted == c.f1 \/ ~Exists(fs, to) \/ Exists(fs, into)
          renamed   == Rename(fs, from, IF Exists(fs, to) THEN into ELSE to)
      IN  (pc = "dispatch" /\ pc' # pc /\ c.fn = "move_file" /\ read_to_string(fs, from).ok)
          => /\ pc' = "send_len" /\ resp'.cmd = "move"
             /\ resp'.code = IF ~permitted THEN 1 ELSE IF renamed.ok THEN 0 ELSE 2]_vars

\* C14: a permitted move onto a destination that exists goes into the
\* destination, under the source's base name, when the destination is a
\* directory; onto a destination that is a regular file (permitted by
\* overwrite) the source is renamed to the destination path itself: the code
\* is 0, the destination then holds the source's content and the source path
\* is gone.
MoveOntoFileReplacesIt ==
   [][LET c    == HandlerCall(msg)
          from == expand_tilde(expand_vars(c.p1))
          to   == expand_tilde(expand_vars(c.p2))
          into == Join(to, file_name(from).name)
          src  == read_to_string(fs, from)
      IN  (/\ pc = "dispatch" /\ pc' # pc /\ c.fn = "move_file" /\ ~c.f2
           /\ src.ok /\ Exists(fs, to)
           /\ c.f1 \/ Exists(fs, into))
          => /\ pc' = "send_len" /\ resp'.cmd = "move"
             /\ IF IsDir(fs, to)
                THEN /\ resp'.code = 0
                     /\ read_to_string(fs', into) = src
                     /\ IsDir(fs', to) /\ ~Exists(fs', from)
                ELSE /\ resp'.code = 0
                     /\ read_to_string(fs', to) = src
                     /\ Resolve(fs, from).path # Resolve(fs, to).path => ~Exists(fs', from)]_vars

\* The text the data-URL rule of write prescribes for content c: [ok, value].
\* The payload is what follows the matched prefix; it is base64-decoded
\* when the prefix ends in ";base64," (not ok when it cannot be decoded to
\* UTF-8) and kept as it is otherwise; content without the prefix is kept
\* whole.
ClaimedPayload(c) ==
   LET marker == <<59, 98, 97, 115, 101, 54, 52>>   \* ";base64"
       Decoded(d) == [ok |-> d.ok /\ IsUtf8(d.bytes), value |-> d.bytes]
       Of(end) ==
          IF end = 0 THEN [ok |-> TRUE, value |-> c]
          ELSE IF end > Len(marker) /\ Slice(c, end - Len(marker), end - 1) = marker
          THEN Decoded(B64Decode(Slice(c, end + 1, Len(c))))
          ELSE [ok |-> TRUE, value |-> Slice(c, end + 1, Len(c))]
   IN  Of(DataUrlMatchEnd(c))

\* C15: a write is answered, and when its code is 0 the file holds the text
\* the data-URL rule prescribes: the decoded payload with ";base64", the
\* payload as it is without, the whole content when it is no data URL.
WriteStoresPayload ==
   [][LET c      == HandlerCall(msg)
          stored == ClaimedPayload(c.text)
      IN  (pc = "dispatch" /\ pc' # pc /\ c.fn = "write" /\ stored.ok)
          => /\ pc' = "send_len" /\ resp'.cmd = "write"
             /\ resp'.code = 0
                  => read_to_string(fs', c.p1) = [ok |-> TRUE, value |-> stored.value]]_vars

\* The path the tilde rule prescribes: the home directory for "~", the home
\* directory joined with rest for "~/rest", the path itself when it does not
\* begin with "~".
ClaimedTilde(path) ==
   IF path = <<126>> THEN home_dir   \* "~"
   ELSE IF StartsWith(path, <<126, Slash>>)   \* "~/"
   THEN home_dir \o <<Slash>> \o Slice(path, 3, Len(path))
   ELSE path

\* C16: read answers with what the file at the expanded path holds, where
\* "~" expands to the home directory, "~/rest" to rest inside the home
\* directory, and a path without a leading "~" to itself.
TildeExpandsIntoHome ==
   LET Ruled(path) == path = <<126>> \/ StartsWith(path, <<126, Slash>>)
                      \/ ~StartsWith(path, <<126>>)   \* "~"
       Read(path, result) ==
          Ruled(path) => /\ resp.code = (IF result.ok THEN 0 ELSE 2)
                         /\ resp.text = result.value
       At(path) == Read(path, read_to_string(fs, ClaimedTilde(path)))
   IN  (pc = "send_len" /\ call.fn = "read") => At(expand_vars(call.p1))

\* The code the config rule prescribes in filesystem f: 1 when neither
\* candidate exists; else, for the first candidate that exists, 0 when it
\* can be read and 2 when it cannot.
ClaimedConfigCode(f) ==
   LET Found(file) == IF read_to_string(f, file).ok THEN 0 ELSE 2
       First(platform, dotfile) ==
          IF Exists(f, platform) THEN Found(platform)
          ELSE IF Exists(f, dotfile) THEN Found(dotfile)
          ELSE 1
   IN  First(Join(Join(config_dir, NAME), CONFIG), Join(home_dir, <<46>> \o CONFIG))   \* "."

\* C17: getconfig and getconfigpath answer with the same code in the same
\* filesystem: 0 when the config file is found and readable, 2 when it is
\* found and not readable, 1 when there is none.
ConfigCommandsAgreeOnCode ==
   (pc = "send_len" /\ call.fn \in {"get_config", "get_config_path"})
   => resp.code = ClaimedConfigCode(fs)

\* C18: while run waits for its child, the child's standard input has been
\* given exactly the request's content and then closed, when the request has
\* a string content; nothing has been written to it when the request has
\* none.
RunFeedsContentToChild ==
   (pc = "run_wait" /\ call.fn = "run")
   => IF call.f1 THEN child.input = call.text /\ child.eof
      ELSE child.input = Empty

\* C19: while the child of a run has not exited, the bridge stays in that
\* run: it reads no frame, builds no response and writes nothing to its
\* output (what reaches the channel comes from children); a child that never
\* exits stays as it is, so the bridge stays there for ever.  The response
\* to a run is written only when its child has exited.
RunBlocksUntilChildExits ==
   [][/\ (pc = "run_wait" /\ child.state = "running")
         => /\ pc' = "run_wait" /\ UNCHANGED <<msg, call, resp, prev, outbuf, nreq, zrun>>
            /\ Frames(wire') = Frames(wire)
            /\ child.hangs => child' = child
      /\ (pc = "run_wait" /\ pc' # pc)
         => /\ child.state = "exited" /\ child' = child
            /\ pc' = "send_len" /\ resp'.cmd = "run"
      /\ (call.fn = "run" /\ (outbuf' # outbuf \/ Frames(wire') # Frames(wire)))
         => child.state = "exited"]_vars

\* C19, witness: the first request was answered; the second is a run whose
\* child never exits, and the bridge waits for it.
BridgeWaitsForHungChild ==
   /\ pc = "run_wait" /\ call.fn = "run" /\ child.state = "running" /\ child.hangs
   /\ nreq = 2 /\ Frames(wire) = FramesOf(1) /\ outbuf = <<>>

\* C20: whatever the children of run and run_async do, and whenever they do
\* it, the output channel holds response frames and nothing else: the
\* length and the payload of the responses to requests 1..k, in this order,
\* and no byte written by a child.
OnlyFramesOnOutputChannel ==
   \E k \in 0..nreq : wire = FramesOf(k)

=============================================================================
